---------------------------- MODULE Spec2Model ----------------------------
(***************************************************************************)
(* A model of huffman.py: the Node type, the HuffmanCoding codec           *)
(* (build_tree, generate_codes, encode, decode) on top of Python's heapq   *)
(* and Counter, and the session state of HuffmanApp (compress_text,        *)
(* decompress_text, load_file).                                            *)
(*                                                                         *)
(* Representation.  A Python str is a sequence of one-character strings;   *)
(* a bitstring is a sequence of "0"/"1".  A dict is a function whose       *)
(* DOMAIN is its key set.  A list used as a heap is a sequence, addressed  *)
(* through At/Put with Python's 0-based positions.  Python's None is None  *)
(* where a character or an exception name is expected and NoNode where a   *)
(* Node is expected (TLC compares values of one kind only).                *)
(***************************************************************************)
EXTENDS Integers, Sequences, FiniteSets, TLC

VARIABLES
    codes,          \* HuffmanCoding.codes
    reverse_codes,  \* HuffmanCoding.reverse_codes
    text,           \* the argument of the current/last encode call
    tree,           \* the tree returned by encode (HuffmanApp.tree in SpecApp)
    encoded,        \* the bitstring returned by encode
    raised,         \* the exception that ended the last call, or None
    pc,             \* position of the caller / of build_tree's loop
    bits,           \* the bitstring handed to decode
    decoded,        \* decode's list `decoded` when it ended
    node,           \* decode's walk position `node` when it ended
    heap,           \* build_tree's local list `heap`
    left,           \* build_tree's local `left` of the last iteration
    right,          \* build_tree's local `right` of the last iteration
    merges,         \* number of loop iterations build_tree has run
    calls,          \* number of encode calls made on the instance
    text_area,      \* contents of HuffmanApp.text_area
    last_encoded,   \* HuffmanApp.last_encoded
    message,        \* the last messagebox / output_label text, abbreviated
    lastText        \* history: the text of the last successful compress_text

vars == <<calls, codes, reverse_codes, text, tree, encoded, raised, pc, bits, decoded,
          node, heap, left, right, merges, text_area, last_encoded, message,
          lastText>>

-----------------------------------------------------------------------------
(* Bounds of the model.                                                    *)

MaxLen == 4        \* longest text handed to encode
MaxBits == 3       \* longest arbitrary bitstring handed to decode
MaxCount == 3      \* largest per-symbol count of a frequency distribution
MaxArea == 3       \* longest text-area content in the application
MaxRunLen == 3     \* longest text encoded on a reused instance
MaxCalls == 2      \* most encode calls made on one instance

Symbols == {"a", "b", "c"}
WideSymbols == {"a", "b", "c", "d"}
Whitespace == {" ", "\n"}
AreaSymbols == {"a", "b", " "}

None == "None"
NoNode == [none |-> TRUE]

SeqsUpTo(S, n) == UNION {[1..k -> S] : k \in 0..n}
Texts == SeqsUpTo(Symbols, MaxLen)
BitStrings == SeqsUpTo({"0", "1"}, MaxBits)

-----------------------------------------------------------------------------
(* Python values.                                                          *)

\* Truth value of a character field: None and the empty string are falsy.
Truthy(c) == c # None /\ c # ""

EmptyDict == [k \in {} |-> None]
DictSet(d, key, val) ==
    [k \in DOMAIN d \cup {key} |-> IF k = key THEN val ELSE d[k]]

Node(char, freq, l, r) == [char |-> char, freq |-> freq, left |-> l, right |-> r]

\* A max-heap comparison in place of Node.__lt__.
lt_reversed(self, other) == self.freq > other.freq

\* Node.__lt__ : only freq is compared.
lt(self, other) == self.freq < other.freq

At(list, pos) == list[pos + 1]
Put(list, pos, item) == [list EXCEPT ![pos + 1] = item]

\* collections.Counter(text): counts keyed in order of first occurrence.
CounterAdd(freq, ch) ==
    IF \E i \in 1..Len(freq) : freq[i][1] = ch
    THEN [i \in 1..Len(freq) |->
            IF freq[i][1] = ch THEN <<ch, freq[i][2] + 1>> ELSE freq[i]]
    ELSE Append(freq, <<ch, 1>>)

RECURSIVE CounterLoop(_, _)
CounterLoop(freq, t) ==
    IF t = <<>> THEN freq
    ELSE CounterLoop(CounterAdd(freq, Head(t)), Tail(t))

Counter(t) == CounterLoop(<<>>, t)

-----------------------------------------------------------------------------
(* heapq, as CPython defines it, with < being Node.__lt__.                 *)

RECURSIVE siftdownLoop(_, _, _, _)
siftdownLoop(h, startpos, pos, newitem) ==
    IF pos > startpos
    THEN LET parentpos == (pos - 1) \div 2
             parent == At(h, parentpos)
         IN  IF lt(newitem, parent)
             THEN siftdownLoop(Put(h, pos, parent), startpos, parentpos, newitem)
             ELSE Put(h, pos, newitem)
    ELSE Put(h, pos, newitem)

siftdown(h, startpos, pos) == siftdownLoop(h, startpos, pos, At(h, pos))

RECURSIVE siftupLoop(_, _, _, _)
siftupLoop(h, startpos, pos, newitem) ==
    LET endpos == Len(h)
        childpos == 2 * pos + 1
        rightpos == childpos + 1
        smaller == IF rightpos < endpos /\ ~lt(At(h, childpos), At(h, rightpos))
                   THEN rightpos ELSE childpos
    IN  IF childpos < endpos
        THEN siftupLoop(Put(h, pos, At(h, smaller)), startpos, smaller, newitem)
        ELSE siftdown(Put(h, pos, newitem), startpos, pos)

siftup(h, pos) == siftupLoop(h, pos, pos, At(h, pos))

RECURSIVE heapifyLoop(_, _)
heapifyLoop(x, i) ==
    IF i < 0 THEN x ELSE heapifyLoop(siftup(x, i), i - 1)

heapify(x) == heapifyLoop(x, (Len(x) \div 2) - 1)

\* list.append in place of heappush: the new item is not sifted.
heappush_append(h, item) == Append(h, item)

heappush(h, item) == siftdown(Append(h, item), 0, Len(h))

\* heappop returns the popped item and leaves the list shorter by one.
heappop(h) ==
    LET lastelt == h[Len(h)]
        rest == SubSeq(h, 1, Len(h) - 1)
    IN  IF rest # <<>>
        THEN [item |-> rest[1], heap |-> siftup(Put(rest, 0, lastelt), 0)]
        ELSE [item |-> lastelt, heap |-> rest]

-----------------------------------------------------------------------------
(* HuffmanCoding.                                                          *)

\* build_tree, lines 26-28: the heapified list of leaves.
initial_heap(t) ==
    LET freq == Counter(t)
    IN  heapify([i \in 1..Len(freq) |-> Node(freq[i][1], freq[i][2], NoNode, NoNode)])

\* build_tree, lines 30-33: one iteration of the merge loop.
merge_step(h) ==
    LET p1 == heappop(h)
        p2 == heappop(p1.heap)
        merged == Node(None, p1.item.freq + p2.item.freq, p1.item, p2.item)
    IN  [left |-> p1.item, right |-> p2.item, merged |-> merged,
         heap |-> heappush(p2.heap, merged)]

RECURSIVE merge_loop(_)
merge_loop(h) == IF Len(h) > 1 THEN merge_loop(merge_step(h).heap) ELSE h

\* build_tree: heap[0] of an empty list raises IndexError.
build_tree(t) ==
    LET h == merge_loop(initial_heap(t))
    IN  IF h = <<>> THEN [raised |-> "IndexError", tree |-> NoNode]
        ELSE [raised |-> None, tree |-> At(h, 0)]

\* generate_codes keeping the code a symbol already has in self.codes.
RECURSIVE generate_codes_keep(_, _, _)
generate_codes_keep(n, prefix, tabs) ==
    IF n = NoNode THEN tabs
    ELSE IF Truthy(n.char)
         THEN IF n.char \in DOMAIN tabs.codes THEN tabs
              ELSE [codes |-> DictSet(tabs.codes, n.char, prefix),
                    reverse_codes |-> DictSet(tabs.reverse_codes, prefix, n.char)]
         ELSE generate_codes_keep(n.right, Append(prefix, "1"),
                  generate_codes_keep(n.left, Append(prefix, "0"), tabs))

\* generate_codes appending "0" on the way to the right child too.
RECURSIVE generate_codes_same_bit(_, _, _)
generate_codes_same_bit(n, prefix, tabs) ==
    IF n = NoNode THEN tabs
    ELSE IF Truthy(n.char)
         THEN [codes |-> DictSet(tabs.codes, n.char, prefix),
               reverse_codes |-> DictSet(tabs.reverse_codes, prefix, n.char)]
         ELSE generate_codes_same_bit(n.right, Append(prefix, "0"),
                  generate_codes_same_bit(n.left, Append(prefix, "0"), tabs))

\* generate_codes(node, prefix) acting on the pair of dicts `tabs`.
RECURSIVE generate_codes(_, _, _)
generate_codes(n, prefix, tabs) ==
    IF n = NoNode THEN tabs
    ELSE IF Truthy(n.char)
         THEN [codes |-> DictSet(tabs.codes, n.char, prefix),
               reverse_codes |-> DictSet(tabs.reverse_codes, prefix, n.char)]
         ELSE generate_codes(n.right, Append(prefix, "1"),
                             generate_codes(n.left, Append(prefix, "0"), tabs))

\* ''.join(table[ch] for ch in t): KeyError on a character without a code.
RECURSIVE join_codes(_, _)
join_codes(table, t) ==
    IF t = <<>> THEN [raised |-> None, value |-> <<>>]
    ELSE IF Head(t) \notin DOMAIN table
         THEN [raised |-> "KeyError", value |-> <<>>]
         ELSE LET rest == join_codes(table, Tail(t))
              IN  [raised |-> rest.raised,
                   value |-> IF rest.raised = None
                             THEN table[Head(t)] \o rest.value ELSE <<>>]

\* encode(text) on an instance whose dicts are `tabs`: the outcome and the
\* dicts the call leaves behind.
encode(tabs, t) ==
    LET bt == build_tree(t)
        gen == generate_codes(bt.tree, <<>>, tabs)
        joined == join_codes(gen.codes, t)
    IN  IF bt.raised # None
        THEN [raised |-> bt.raised, encoded |-> <<>>, tree |-> NoNode, tabs |-> tabs]
        ELSE [raised |-> joined.raised, encoded |-> joined.value,
              tree |-> IF joined.raised = None THEN bt.tree ELSE NoNode,
              tabs |-> gen]

\* decode's loop: None.char (a step off a leaf) raises AttributeError.
RECURSIVE decode_loop(_, _, _, _)
decode_loop(b, root, n, out) ==
    IF b = <<>> THEN [raised |-> None, decoded |-> out, node |-> n]
    ELSE LET next == IF Head(b) = "0" THEN n.left ELSE n.right
         IN  IF next = NoNode
             THEN [raised |-> "AttributeError", decoded |-> out, node |-> next]
             ELSE IF Truthy(next.char)
                  THEN decode_loop(Tail(b), root, root, Append(out, next.char))
                  ELSE decode_loop(Tail(b), root, next, out)

decode(b, root) == decode_loop(b, root, root, <<>>)

-----------------------------------------------------------------------------
(* Parts of the state a specification does not use keep these values.      *)

IdleCall == /\ text = <<>> /\ tree = NoNode /\ encoded = <<>> /\ raised = None
IdleDecode == bits = <<>> /\ decoded = <<>> /\ node = NoNode
IdleLoop == heap = <<>> /\ left = NoNode /\ right = NoNode /\ merges = 0 /\ calls = 0
IdleApp == text_area = <<>> /\ last_encoded = <<>> /\ message = None /\ lastText = <<>>

\* HuffmanCoding.__init__
FreshInstance == codes = EmptyDict /\ reverse_codes = EmptyDict

decodeVars == <<bits, decoded, node>>
loopVars == <<heap, left, right, merges>>
buildVars == <<loopVars, calls>>
appVars == <<text_area, last_encoded, message, lastText>>
tableVars == <<codes, reverse_codes>>

-----------------------------------------------------------------------------
(* Spec: one encode call on a fresh instance, then one decode call.        *)

Prefixes(s) == {SubSeq(s, 1, k) : k \in 0..Len(s)}

Init ==
    /\ FreshInstance
    /\ text \in Texts
    /\ tree = NoNode /\ encoded = <<>> /\ raised = None
    /\ pc = "start"
    /\ IdleDecode /\ IdleLoop /\ IdleApp

Encode ==
    /\ pc = "start"
    /\ LET r == encode([codes |-> codes, reverse_codes |-> reverse_codes], text)
       IN  /\ codes' = r.tabs.codes
           /\ reverse_codes' = r.tabs.reverse_codes
           /\ tree' = r.tree
           /\ encoded' = r.encoded
           /\ raised' = r.raised
    /\ pc' = "encoded"
    /\ UNCHANGED <<text, decodeVars, buildVars, appVars>>

Decode ==
    /\ pc = "encoded"
    /\ raised = None
    /\ \E b \in Prefixes(encoded) \cup BitStrings :
         LET r == decode(b, tree)
         IN  /\ bits' = b
             /\ decoded' = r.decoded
             /\ node' = r.node
             /\ raised' = r.raised
    /\ pc' = "decoded"
    /\ UNCHANGED <<tableVars, text, tree, encoded, buildVars, appVars>>

Next == Encode \/ Decode

Spec == Init /\ [][Next]_vars

-----------------------------------------------------------------------------
(* Claims checked under Spec.                                              *)

DistinctSymbols(t) == {t[i] : i \in 1..Len(t)}

\* C1 (round trip): for every non-empty symbol sequence s, including one
\* with a single distinct symbol, decoding the bitstring encode(s) returned
\* with the tree encode(s) returned gives back exactly s.
C1_RoundTrip ==
    (pc = "decoded" /\ text # <<>> /\ bits = encoded)
        => (raised = None /\ decoded = text)

\* C2 (single-symbol edge case): when the input is one symbol repeated
\* k >= 1 times, encode gives that symbol a code of length >= 1, so the
\* bitstring has at least k bits.
C2_SingleSymbolCode ==
    (pc = "encoded" /\ Cardinality(DistinctSymbols(text)) = 1)
        => /\ raised = None
           /\ text[1] \in DOMAIN codes
           /\ Len(codes[text[1]]) >= 1
           /\ Len(encoded) >= Len(text)

\* C3 (malformed-stream detection): when the bits run out while decode's
\* walk stands on a node other than the root, decode ends with
\* MalformedStreamError and not with a returned (partial) sequence.
C3_MalformedStream ==
    (pc = "decoded" /\ node # NoNode /\ node # tree)
        => raised = "MalformedStreamError"

\* C4 (empty input): encode of the empty sequence ends with
\* EmptyInputError, not with another failure and not with a result.
C4_EmptyInput ==
    (pc = "encoded" /\ text = <<>>) => raised = "EmptyInputError"

-----------------------------------------------------------------------------
(* SpecFreq: one encode call on a fresh instance, the input drawn by its   *)
(* frequency distribution.  build_tree reads its text only through         *)
(* Counter(text), so a text made of one block per symbol, the blocks in    *)
(* every order, yields every Counter with counts up to MaxCount.           *)

MaxCodeLen == 4    \* longest code length of the prefix codes compared with

RECURSIVE Repeat(_, _)
Repeat(ch, k) == IF k = 0 THEN <<>> ELSE <<ch>> \o Repeat(ch, k - 1)

RECURSIVE Blocks(_, _)
Blocks(order, counts) ==
    IF order = <<>> THEN <<>>
    ELSE Repeat(Head(order), Head(counts)) \o Blocks(Tail(order), Tail(counts))

Orders ==
    {o \in SeqsUpTo(WideSymbols, Cardinality(WideSymbols)) :
        o # <<>> /\ \A i, j \in 1..Len(o) : i # j => o[i] # o[j]}

BlockTexts ==
    UNION {{Blocks(o, c) : c \in [1..Len(o) -> 1..MaxCount]} : o \in Orders}

InitFreq ==
    /\ FreshInstance
    /\ text \in BlockTexts
    /\ tree = NoNode /\ encoded = <<>> /\ raised = None
    /\ pc = "start"
    /\ IdleDecode /\ IdleLoop /\ IdleApp

NextFreq == Encode

SpecFreq == InitFreq /\ [][NextFreq]_vars

IsPrefix(p, s) == Len(p) <= Len(s) /\ SubSeq(s, 1, Len(p)) = p

\* C5 (prefix-freedom): among the codes generate_codes assigns to the
\* symbols of the input, no symbol's code is a prefix of, or equal to, a
\* different symbol's code.
C5_PrefixFree ==
    (pc = "encoded" /\ text # <<>>)
        => /\ raised = None
           /\ DistinctSymbols(text) \subseteq DOMAIN codes
           /\ \A s1, s2 \in DistinctSymbols(text) :
                 s1 # s2 => ~IsPrefix(codes[s1], codes[s2])

\* Reached: four symbols whose codes have lengths 1, 2, 3 and 3.
C5_Witness ==
    /\ pc = "encoded" /\ raised = None
    /\ Cardinality(DistinctSymbols(text)) = 4
    /\ {Len(codes[s]) : s \in DistinctSymbols(text)} = {1, 2, 3}

RECURSIVE SumOver(_, _)
SumOver(f, n) == IF n = 0 THEN 0 ELSE f[n] + SumOver(f, n - 1)

\* sum(frequency(symbol) * length(code(symbol))) for the table `table`.
CodeCost(freq, table) ==
    SumOver([i \in 1..Len(freq) |-> freq[i][2] * Len(table[freq[i][1]])], Len(freq))

\* Kraft's inequality: a binary prefix code with the code lengths l[1..n]
\* exists exactly when sum(2^-l[i]) <= 1.
Kraft(l, n) ==
    SumOver([i \in 1..n |-> 2 ^ (MaxCodeLen - l[i])], n) <= 2 ^ MaxCodeLen

\* The least cost of a binary prefix code (code lengths 1..MaxCodeLen) for
\* the counts of freq.
MinPrefixCost(freq) ==
    LET n == Len(freq)
        costs == {SumOver([i \in 1..n |-> freq[i][2] * l[i]], n) :
                    l \in {k \in [1..n -> 1..MaxCodeLen] : Kraft(k, n)}}
    IN  CHOOSE c \in costs : \A d \in costs : c <= d

\* C6 (optimality): for a distribution over at least two symbols, the cost
\* sum(frequency * code length) of the generated codes equals the minimum
\* of that cost over all binary prefix codes for the distribution.
C6_Optimal ==
    (pc = "encoded" /\ Cardinality(DistinctSymbols(text)) >= 2)
        => /\ raised = None
           /\ CodeCost(Counter(text), codes) = MinPrefixCost(Counter(text))

\* Reached: a four-symbol distribution whose optimum is the skewed tree
\* (code lengths 1, 2, 3, 3), and by the tie 1+1 = 2 also a tie to break.
C6_Witness ==
    /\ pc = "encoded" /\ raised = None
    /\ Cardinality(DistinctSymbols(text)) = 4
    /\ \E s \in DistinctSymbols(text) : Len(codes[s]) = 3
    /\ CodeCost(Counter(text), codes) = 13

-----------------------------------------------------------------------------
(* SpecBuild: build_tree run one loop iteration at a time.                 *)

InitBuild ==
    /\ FreshInstance
    /\ text \in Texts \cup BlockTexts
    /\ tree = NoNode /\ encoded = <<>> /\ raised = None
    /\ pc = "start"
    /\ IdleDecode /\ IdleLoop /\ IdleApp

\* lines 26-28
BuildStart ==
    /\ pc = "start"
    /\ heap' = initial_heap(text)
    /\ pc' = "loop"
    /\ UNCHANGED <<tableVars, text, tree, encoded, raised, left, right, merges,
                   calls, decodeVars, appVars>>

\* lines 29-33, one iteration
MergeStep ==
    /\ pc = "loop"
    /\ Len(heap) > 1
    /\ LET m == merge_step(heap)
       IN  /\ heap' = m.heap
           /\ left' = m.left
           /\ right' = m.right
    /\ merges' = merges + 1
    /\ UNCHANGED <<tableVars, text, tree, encoded, raised, pc,
                   calls, decodeVars, appVars>>

\* line 34
BuildReturn ==
    /\ pc = "loop"
    /\ ~(Len(heap) > 1)
    /\ IF heap = <<>>
       THEN raised' = "IndexError" /\ tree' = tree
       ELSE raised' = raised /\ tree' = At(heap, 0)
    /\ pc' = "done"
    /\ UNCHANGED <<tableVars, text, encoded, buildVars, decodeVars, appVars>>

NextBuild == BuildStart \/ MergeStep \/ BuildReturn

SpecBuild == InitBuild /\ [][NextBuild]_vars

Occurrences(t, s) == Cardinality({i \in 1..Len(t) : t[i] = s})

\* The leaves of a tree, left to right, each as <<char, freq>>.
RECURSIVE Leaves(_)
Leaves(n) ==
    IF Truthy(n.char) THEN <<<<n.char, n.freq>>>>
    ELSE Leaves(n.left) \o Leaves(n.right)

\* Every internal node's frequency is the sum of its two children's.
RECURSIVE SumsOfChildren(_)
SumsOfChildren(n) ==
    \/ Truthy(n.char)
    \/ /\ n.freq = n.left.freq + n.right.freq
       /\ SumsOfChildren(n.left)
       /\ SumsOfChildren(n.right)

\* C9 (tree construction loop): for a non-empty input with n distinct
\* symbols, in every state of the loop the heap's frequencies sum to
\* len(text) and the heap holds n nodes less one per merge done; each merge
\* took the two lowest-frequency nodes, the first extracted as left and the
\* second as right of a node whose frequency is their sum; the loop ends
\* after exactly n-1 merges with one node left, the root, whose leaves are
\* the distinct symbols, each once with its occurrence count.
C9_BuildLoop ==
    LET n == Cardinality(DistinctSymbols(text))
        merged == Node(None, left.freq + right.freq, left, right)
    IN  (text # <<>> /\ pc \in {"loop", "done"})
        => /\ SumOver([i \in 1..Len(heap) |-> heap[i].freq], Len(heap)) = Len(text)
           /\ Len(heap) + merges = n
           /\ Len(heap) >= 1
           /\ merges > 0 =>
                /\ left.freq <= right.freq
                /\ \E i \in 1..Len(heap) :
                     /\ heap[i] = merged
                     /\ \A j \in 1..Len(heap) : j # i => right.freq <= heap[j].freq
           /\ pc = "done" =>
                /\ raised = None
                /\ merges = n - 1
                /\ heap = <<tree>>
                /\ SumsOfChildren(tree)
                /\ Len(Leaves(tree)) = n
                /\ {Leaves(tree)[i] : i \in 1..n}
                     = {<<s, Occurrences(text, s)>> : s \in DistinctSymbols(text)}

\* Reached: build_tree returned after three merges of four symbols, the
\* last merge joining a leaf with a merged node.
C9_Witness ==
    /\ pc = "done" /\ merges = 3
    /\ Cardinality(DistinctSymbols(text)) = 4
    /\ Truthy(left.char) /\ ~Truthy(right.char)
    /\ tree.left = left /\ tree.right = right

-----------------------------------------------------------------------------
(* SpecInstance: a sequence of encode calls on one HuffmanCoding instance. *)

InitInstance ==
    /\ FreshInstance
    /\ IdleCall
    /\ pc = "fresh"
    /\ IdleDecode /\ IdleLoop /\ IdleApp

EncodeCall ==
    /\ calls < MaxCalls
    /\ \E t \in SeqsUpTo(Symbols, MaxRunLen) :
         LET r == encode([codes |-> codes, reverse_codes |-> reverse_codes], t)
         IN  /\ text' = t
             /\ codes' = r.tabs.codes
             /\ reverse_codes' = r.tabs.reverse_codes
             /\ tree' = r.tree
             /\ encoded' = r.encoded
             /\ raised' = r.raised
    /\ calls' = calls + 1
    /\ pc' = "encoded"
    /\ UNCHANGED <<decodeVars, loopVars, appVars>>

NextInstance == EncodeCall

SpecInstance == InitInstance /\ [][NextInstance]_vars

FreshTables == [codes |-> EmptyDict, reverse_codes |-> EmptyDict]

\* C7 (run independence): after any sequence of encode calls on one
\* instance, codes and reverse_codes are exactly what a fresh instance
\* holds after encoding only the most recent input.
C7_RunIndependence ==
    (pc = "encoded" /\ raised = None)
        => /\ codes = encode(FreshTables, text).tabs.codes
           /\ reverse_codes = encode(FreshTables, text).tabs.reverse_codes

\* C8 (tie-break determinism): an encode call on an instance that has
\* encoded other inputs before returns the tree and the bitstring that the
\* encoding of the same input on a fresh instance returns.
C8_Deterministic ==
    (pc = "encoded" /\ text # <<>>)
        => /\ raised = None
           /\ encoded = encode(FreshTables, text).encoded
           /\ tree = encode(FreshTables, text).tree

\* Reached: three equal-frequency symbols encoded on an instance whose
\* tables still hold another code of an earlier call for one of them.
C8_Witness ==
    /\ pc = "encoded" /\ raised = None /\ calls = 2
    /\ Len(text) = 3 /\ Cardinality(DistinctSymbols(text)) = 3
    /\ \E k \in DOMAIN reverse_codes :
          /\ reverse_codes[k] \in DistinctSymbols(text)
          /\ codes[reverse_codes[k]] # k

-----------------------------------------------------------------------------
(* SpecApp: the session state of HuffmanApp under its button handlers and  *)
(* the user's edits of the text area.  The files the handlers write        *)
(* (compressed.bin, decompressed.txt) and the charts are not part of the   *)
(* state.                                                                  *)

AreaTexts == SeqsUpTo(AreaSymbols, MaxArea)

\* Text.get(1.0, END): the content followed by the widget's final newline.
get_all(area) == area \o <<"\n">>

\* str.strip(): leading and trailing whitespace removed.
RECURSIVE lstrip(_)
lstrip(t) == IF t # <<>> /\ Head(t) \in Whitespace THEN lstrip(Tail(t)) ELSE t

RECURSIVE rstrip(_)
rstrip(t) ==
    IF t # <<>> /\ t[Len(t)] \in Whitespace
    THEN rstrip(SubSeq(t, 1, Len(t) - 1)) ELSE t

strip(t) == rstrip(lstrip(t))

\* HuffmanApp.__init__
InitApp ==
    /\ FreshInstance
    /\ text_area = <<>>
    /\ last_encoded = <<>>
    /\ tree = NoNode
    /\ message = None
    /\ lastText = <<>>
    /\ pc = "idle"
    /\ text = <<>> /\ encoded = <<>> /\ raised = None
    /\ IdleDecode /\ IdleLoop

\* The user types in, or deletes from, the Text widget.
EditText ==
    /\ \E t \in AreaTexts : text_area' = t
    /\ pc' = "edit"
    /\ UNCHANGED <<tableVars, text, tree, encoded, raised, decodeVars, buildVars,
                   last_encoded, message, lastText>>

\* load_file with a file chosen: its data replaces the content.
load_file ==
    /\ \E data \in AreaTexts : text_area' = data
    /\ message' = "File Loaded"
    /\ pc' = "load_file"
    /\ UNCHANGED <<tableVars, text, tree, encoded, raised, decodeVars, buildVars,
                   last_encoded, lastText>>

compress_text ==
    LET t == strip(get_all(text_area))
        r == encode([codes |-> codes, reverse_codes |-> reverse_codes], t)
    IN  /\ pc' = "compress_text"
        /\ IF t = <<>>
           THEN /\ message' = "No text to compress!"
                /\ UNCHANGED <<tableVars, tree, last_encoded, lastText, raised>>
           ELSE /\ codes' = r.tabs.codes
                /\ reverse_codes' = r.tabs.reverse_codes
                /\ raised' = r.raised
                /\ IF r.raised = None
                   THEN /\ last_encoded' = r.encoded
                        /\ tree' = r.tree
                        /\ lastText' = t
                        /\ message' = "Compressed!"
                   ELSE UNCHANGED <<last_encoded, tree, lastText, message>>
        /\ UNCHANGED <<text_area, text, encoded, decodeVars, buildVars>>

decompress_text ==
    LET r == decode(last_encoded, tree)
    IN  /\ pc' = "decompress_text"
        /\ IF last_encoded = <<>>
           THEN /\ message' = "No data compressed yet!"
                /\ UNCHANGED <<text_area, raised>>
           ELSE /\ raised' = r.raised
                /\ IF r.raised = None
                   THEN /\ text_area' = r.decoded
                        /\ message' = "Decompression Successful!"
                   ELSE UNCHANGED <<text_area, message>>
        /\ UNCHANGED <<tableVars, text, tree, encoded, decodeVars, buildVars,
                       last_encoded, lastText>>

NextApp == EditText \/ load_file \/ compress_text \/ decompress_text

SpecApp == InitApp /\ [][NextApp]_vars

\* C10 (app session state): last_encoded and tree always come from one
\* encode call, that of the most recently compressed text, and every
\* decompress_text issued after a successful compress_text puts exactly
\* that text in the text area instead of reporting that no data has been
\* compressed.
C10_SessionState ==
    /\ lastText = <<>> => (last_encoded = <<>> /\ tree = NoNode)
    /\ lastText # <<>> =>
         /\ last_encoded = encode(FreshTables, lastText).encoded
         /\ tree = encode(FreshTables, lastText).tree
    /\ (pc = "decompress_text" /\ lastText # <<>>) =>
         /\ message = "Decompression Successful!"
         /\ text_area = lastText

=============================================================================
